---- MODULE Spec2Model ----
(***************************************************************************)
(* XLMRobertaTokenizer (src/transformers/tokenization_xlm_roberta.py):     *)
(* the id remapping between the SentencePiece vocabulary and the fairseq   *)
(* numbering, the construction of model inputs and their masks, and        *)
(* save_vocabulary.                                                        *)
(*                                                                         *)
(* Python values are modelled as follows.  None is the empty tuple <<>>,   *)
(* an optional list is <<>> (None) or <<list>>.  The outcome of a call is  *)
(* a record: [kind |-> "return", val |-> v] or                             *)
(* [kind |-> "raise", exc |-> e].  A path is the sequence of its           *)
(* components, an absolute path starting with the component "/".           *)
(***************************************************************************)
EXTENDS Integers, Sequences, FiniteSets, TLC

VARIABLES
    sp_model,               \* self.sp_model: the pieces, by engine-local id + 1
    vocab_file,             \* self.vocab_file
    fairseq_tokens_to_ids,  \* self.fairseq_tokens_to_ids
    fairseq_ids_to_tokens,  \* self.fairseq_ids_to_tokens
    fs,                     \* the filesystem: [dirs, files]
    call,                   \* the call in progress, [op |-> "idle"] between calls
    ret                     \* the outcome of that call

vars == <<sp_model, vocab_file, fairseq_tokens_to_ids, fairseq_ids_to_tokens,
          fs, call, ret>>

(***************************************************************************)
(* Bounds of the model.                                                    *)
(***************************************************************************)
MaxEngine == 7      \* largest len(self.sp_model)
MaxLenA == 2        \* longest token_ids_0
MaxLenB == 3        \* longest token_ids_1
IdSlack == 2        \* ids tried below 0 and above vocab_size - 1

(***************************************************************************)
(* Python helpers.                                                         *)
(***************************************************************************)
None == <<>>

Returns(v) == [kind |-> "return", val |-> v]

Raises(e) == [kind |-> "raise", exc |-> e]

Range(s) == {s[i] : i \in DOMAIN s}

Repeat(x, n) == [i \in 1..n |-> x]

SeqsUpTo(S, n) == UNION {[1..k -> S] : k \in 0..n}

(***************************************************************************)
(* Module constants and constructor defaults.                              *)
(***************************************************************************)
VOCAB_FILES_NAMES == [vocab_file |-> "sentencepiece.bpe.model"]

bos_token == "<s>"
eos_token == "</s>"
sep_token == "</s>"
cls_token == "<s>"
unk_token == "<unk>"
pad_token == "<pad>"
mask_token == "<mask>"

max_len == 512

max_len_single_sentence == max_len - 2

max_len_sentences_pair == max_len - 4

fairseq_offset == 1

(***************************************************************************)
(* The SentencePiece engine.  Its vocabulary is the one of the alignment   *)
(* table in __init__: '<unk>', '<s>', '</s>' at local ids 0, 1, 2 and the  *)
(* real pieces from local id 3 on ("_" stands for U+2581).                 *)
(***************************************************************************)
SpmVocab == <<"<unk>", "<s>", "</s>", ",", ".", "_", "s", "_de", "-", "_a">>

SpmReserved == 3

Engines == {SubSeq(SpmVocab, 1, n) : n \in SpmReserved..MaxEngine}

\* sp_model.PieceToId: the local id of a piece, the unknown id 0 for any other string
PieceToId(piece) ==
    IF \E i \in DOMAIN sp_model : sp_model[i] = piece
    THEN (CHOOSE i \in DOMAIN sp_model : sp_model[i] = piece) - 1
    ELSE 0

\* sp_model.IdToPiece: the piece of a local id, a failure outside [0, len)
IdToPiece(id) ==
    IF id >= 0 /\ id < Len(sp_model)
    THEN Returns(sp_model[id + 1])
    ELSE Raises("IndexError")

(***************************************************************************)
(* __init__: the reserved-token tables.                                    *)
(***************************************************************************)
\* the first four entries of self.fairseq_tokens_to_ids
FairseqFirstFour ==
    [t \in {"<s>", "<pad>", "</s>", "<unk>"} |->
        CASE t = "<s>" -> 0
          [] t = "<pad>" -> 1
          [] t = "</s>" -> 2
          [] t = "<unk>" -> 3]

\* a table with '<mask>' right behind the last piece
MaskAtOffset(sp) ==
    [t \in DOMAIN FairseqFirstFour \cup {"<mask>"} |->
        IF t = "<mask>" THEN Len(sp) + fairseq_offset ELSE FairseqFirstFour[t]]

\* self.fairseq_tokens_to_ids once '<mask>' is added at
\* len(self.sp_model) + len(self.fairseq_tokens_to_ids)
InitTokensToIds(sp) ==
    [t \in DOMAIN FairseqFirstFour \cup {"<mask>"} |->
        IF t = "<mask>"
        THEN Len(sp) + Cardinality(DOMAIN FairseqFirstFour)
        ELSE FairseqFirstFour[t]]

\* {v: k for k, v in self.fairseq_tokens_to_ids.items()}
InitIdsToTokens(t2i) ==
    [i \in {t2i[t] : t \in DOMAIN t2i} |-> CHOOSE t \in DOMAIN t2i : t2i[t] = i]

(***************************************************************************)
(* The index remapper.                                                     *)
(***************************************************************************)
vocab_size == Len(sp_model) + Cardinality(DOMAIN fairseq_tokens_to_ids)

\* the lookup without the fairseq offset
ConvertTokenNoOffset(token) ==
    IF token \in DOMAIN fairseq_tokens_to_ids
    THEN fairseq_tokens_to_ids[token]
    ELSE PieceToId(token)

_convert_token_to_id(token) ==
    IF token \in DOMAIN fairseq_tokens_to_ids
    THEN fairseq_tokens_to_ids[token]
    ELSE PieceToId(token) + fairseq_offset

_convert_id_to_token(index) ==
    IF index \in DOMAIN fairseq_ids_to_tokens
    THEN Returns(fairseq_ids_to_tokens[index])
    ELSE IdToPiece(index - fairseq_offset)

\* PreTrainedTokenizer.cls_token_id and sep_token_id: the ids of the tokens
cls_token_id == _convert_token_to_id(cls_token)

sep_token_id == _convert_token_to_id(sep_token)

(***************************************************************************)
(* The sequence builder.  token_ids_1 is None or <<list>>.                 *)
(***************************************************************************)
\* the pair format with a single separator, <s> A </s> B </s>
BuildInputsSingleSep(token_ids_0, token_ids_1) ==
    IF token_ids_1 = None
    THEN <<cls_token_id>> \o token_ids_0 \o <<sep_token_id>>
    ELSE <<cls_token_id>> \o token_ids_0 \o <<sep_token_id>>
             \o token_ids_1[1] \o <<sep_token_id>>

build_inputs_with_special_tokens(token_ids_0, token_ids_1) ==
    IF token_ids_1 = None
    THEN <<cls_token_id>> \o token_ids_0 \o <<sep_token_id>>
    ELSE LET cls == <<cls_token_id>>
             sep == <<sep_token_id>>
         IN cls \o token_ids_0 \o sep \o sep \o token_ids_1[1] \o sep

\* the mask of the single-separator pair format
SpecialTokensMaskSingleSep(token_ids_0, token_ids_1, already_has_special_tokens) ==
    IF already_has_special_tokens
    THEN IF token_ids_1 # None
         THEN Raises("ValueError")
         ELSE Returns([i \in DOMAIN token_ids_0 |->
                  IF token_ids_0[i] \in {sep_token_id, cls_token_id} THEN 1 ELSE 0])
    ELSE IF token_ids_1 = None
         THEN Returns(<<1>> \o Repeat(0, Len(token_ids_0)) \o <<1>>)
         ELSE Returns(<<1>> \o Repeat(0, Len(token_ids_0)) \o <<1>>
                  \o Repeat(0, Len(token_ids_1[1])) \o <<1>>)

\* the mask without the check of the second sequence
SpecialTokensMaskNoCheck(token_ids_0, token_ids_1, already_has_special_tokens) ==
    IF already_has_special_tokens
    THEN Returns([i \in DOMAIN token_ids_0 |->
             IF token_ids_0[i] \in {sep_token_id, cls_token_id} THEN 1 ELSE 0])
    ELSE IF token_ids_1 = None
         THEN Returns(<<1>> \o Repeat(0, Len(token_ids_0)) \o <<1>>)
         ELSE Returns(<<1>> \o Repeat(0, Len(token_ids_0)) \o <<1, 1>>
                  \o Repeat(0, Len(token_ids_1[1])) \o <<1>>)

get_special_tokens_mask(token_ids_0, token_ids_1, already_has_special_tokens) ==
    IF already_has_special_tokens
    THEN IF token_ids_1 # None
         THEN Raises("ValueError")
         ELSE Returns([i \in DOMAIN token_ids_0 |->
                  IF token_ids_0[i] \in {sep_token_id, cls_token_id} THEN 1 ELSE 0])
    ELSE IF token_ids_1 = None
         THEN Returns(<<1>> \o Repeat(0, Len(token_ids_0)) \o <<1>>)
         ELSE Returns(<<1>> \o Repeat(0, Len(token_ids_0)) \o <<1, 1>>
                  \o Repeat(0, Len(token_ids_1[1])) \o <<1>>)

\* the boundary with both separators in the second block
TokenTypeIdsSymmetric(token_ids_0, token_ids_1) ==
    LET sep == <<sep_token_id>>
        cls == <<cls_token_id>>
    IN IF token_ids_1 = None
       THEN Repeat(0, Len(cls \o token_ids_0 \o sep))
       ELSE Repeat(0, Len(cls \o token_ids_0 \o sep))
                \o Repeat(1, Len(sep \o token_ids_1[1] \o sep))

create_token_type_ids_from_sequences(token_ids_0, token_ids_1) ==
    LET sep == <<sep_token_id>>
        cls == <<cls_token_id>>
    IN IF token_ids_1 = None
       THEN Repeat(0, Len(cls \o token_ids_0 \o sep))
       ELSE Repeat(0, Len(cls \o token_ids_0 \o sep \o sep))
                \o Repeat(1, Len(token_ids_1[1] \o sep))

(***************************************************************************)
(* Paths and the filesystem: os.path and shutil.copyfile.                  *)
(***************************************************************************)
cwd == <<"/">>

isabs(path) == Len(path) > 0 /\ path[1] = "/"

\* os.path.join(path, name) for a relative name
join(path, name) == path \o <<name>>

RECURSIVE normpath(_)
\* os.path.normpath of an absolute path: "." dropped, ".." pops a component
normpath(path) ==
    IF Len(path) <= 1 THEN path
    ELSE LET front == normpath(SubSeq(path, 1, Len(path) - 1))
             last == path[Len(path)]
         IN CASE last = "." -> front
              [] last = ".." -> IF Len(front) > 1
                                THEN SubSeq(front, 1, Len(front) - 1)
                                ELSE front
              [] OTHER -> front \o <<last>>

abspath(path) == normpath(IF isabs(path) THEN path ELSE cwd \o path)

\* os.path.isdir: every prefix of the path resolves to a directory
isdir(f, path) ==
    LET full == IF isabs(path) THEN path ELSE cwd \o path
    IN \A k \in 1..Len(full) : normpath(SubSeq(full, 1, k)) \in f.dirs

\* shutil.copyfile(src, dst): dst holds the bytes of src
copyfile(f, src, dst) ==
    [f EXCEPT !.files =
        [q \in DOMAIN f.files \cup {abspath(dst)} |->
            IF q = abspath(dst) THEN f.files[abspath(src)] ELSE f.files[q]]]

(***************************************************************************)
(* save_vocabulary: the filesystem after the call and what it returns.     *)
(***************************************************************************)
\* the copy without the directory and same-path checks
SaveVocabularyAlwaysCopy(save_directory) ==
    LET out_vocab_file == join(save_directory, VOCAB_FILES_NAMES.vocab_file)
    IN [fs |-> copyfile(fs, vocab_file, out_vocab_file),
        ret |-> Returns(<<out_vocab_file>>)]

save_vocabulary(save_directory) ==
    IF ~isdir(fs, save_directory)
    THEN [fs |-> fs, ret |-> Returns(None)]
    ELSE LET out_vocab_file == join(save_directory, VOCAB_FILES_NAMES.vocab_file)
         IN [fs |-> IF abspath(vocab_file) # abspath(out_vocab_file)
                    THEN copyfile(fs, vocab_file, out_vocab_file)
                    ELSE fs,
             ret |-> Returns(<<out_vocab_file>>)]

(***************************************************************************)
(* The inputs the callers draw from.                                       *)
(***************************************************************************)
Tokens == Range(SpmVocab) \cup {"<pad>", "<mask>", "zzz"}

Ids == (0 - IdSlack)..(MaxEngine + Cardinality(DOMAIN FairseqFirstFour) + IdSlack)

Lists0 == SeqsUpTo({0, 2, 10, 11}, MaxLenA)

Lists1 == {None} \cup {<<b>> : b \in SeqsUpTo({2, 20, 21, 22}, MaxLenB)}

VocabFiles ==
    {<<"/", "models", "sentencepiece.bpe.model">>,
     <<"models", "sentencepiece.bpe.model">>,
     <<"/", "cache", "xlmr.model">>}

SaveDirs ==
    {<<"/", "models">>, <<"models">>, <<".", "models">>, <<"/", "cache">>,
     <<"/", "out">>, <<"out">>, <<"/", "out", "..", "models">>,
     <<"/", "missing">>, <<"/", "models", "sentencepiece.bpe.model">>}

\* the filesystems a tokenizer loaded from vf may start in: the artifact
\* exists, /out may exist, and may already hold an older saved vocabulary
Filesystems(vf) ==
    LET base == {<<"/">>, <<"/", "models">>, <<"/", "cache">>}
        out == <<"/", "out">>
        saved == join(out, VOCAB_FILES_NAMES.vocab_file)
        loaded == [q \in {abspath(vf)} |-> "spm"]
    IN {[dirs |-> base, files |-> loaded],
        [dirs |-> base \cup {out}, files |-> loaded],
        [dirs |-> base \cup {out},
         files |-> [q \in {abspath(vf), saved} |->
                       IF q = saved THEN "old" ELSE "spm"]]}

Idle == [op |-> "idle"]

NoRet == [kind |-> "none"]

(***************************************************************************)
(* Construction and the calls.                                             *)
(***************************************************************************)
\* __init__(vocab_file) on filesystem f, the engine loading the pieces sp
Construct(sp, vf, f) ==
    /\ sp_model = sp
    /\ vocab_file = vf
    /\ fairseq_tokens_to_ids = InitTokensToIds(sp)
    /\ fairseq_ids_to_tokens = InitIdsToTokens(fairseq_tokens_to_ids)
    /\ fs = f
    /\ call = Idle
    /\ ret = NoRet

Init ==
    \E sp \in Engines, vf \in VocabFiles :
        \E f \in Filesystems(vf) : Construct(sp, vf, f)

Frame == UNCHANGED <<sp_model, vocab_file, fairseq_tokens_to_ids, fairseq_ids_to_tokens>>

ConvertTokenToId ==
    /\ call = Idle
    /\ \E token \in Tokens :
        /\ call' = [op |-> "_convert_token_to_id", token |-> token]
        /\ ret' = Returns(_convert_token_to_id(token))
    /\ Frame /\ UNCHANGED fs

ConvertIdToToken ==
    /\ call = Idle
    /\ \E index \in Ids :
        /\ call' = [op |-> "_convert_id_to_token", index |-> index]
        /\ ret' = _convert_id_to_token(index)
    /\ Frame /\ UNCHANGED fs

VocabSize ==
    /\ call = Idle
    /\ call' = [op |-> "vocab_size"]
    /\ ret' = Returns(vocab_size)
    /\ Frame /\ UNCHANGED fs

BuildInputs ==
    /\ call = Idle
    /\ \E token_ids_0 \in Lists0, token_ids_1 \in Lists1 :
        /\ call' = [op |-> "build_inputs_with_special_tokens",
                    token_ids_0 |-> token_ids_0, token_ids_1 |-> token_ids_1]
        /\ ret' = Returns(build_inputs_with_special_tokens(token_ids_0, token_ids_1))
    /\ Frame /\ UNCHANGED fs

GetSpecialTokensMask ==
    /\ call = Idle
    /\ \E token_ids_0 \in Lists0, token_ids_1 \in Lists1, already \in BOOLEAN :
        /\ call' = [op |-> "get_special_tokens_mask",
                    token_ids_0 |-> token_ids_0, token_ids_1 |-> token_ids_1,
                    already_has_special_tokens |-> already]
        /\ ret' = get_special_tokens_mask(token_ids_0, token_ids_1, already)
    /\ Frame /\ UNCHANGED fs

CreateTokenTypeIds ==
    /\ call = Idle
    /\ \E token_ids_0 \in Lists0, token_ids_1 \in Lists1 :
        /\ call' = [op |-> "create_token_type_ids_from_sequences",
                    token_ids_0 |-> token_ids_0, token_ids_1 |-> token_ids_1]
        /\ ret' = Returns(create_token_type_ids_from_sequences(token_ids_0, token_ids_1))
    /\ Frame /\ UNCHANGED fs

SaveVocabulary ==
    /\ call = Idle
    /\ \E save_directory \in SaveDirs :
        /\ call' = [op |-> "save_vocabulary", save_directory |-> save_directory]
        /\ fs' = save_vocabulary(save_directory).fs
        /\ ret' = save_vocabulary(save_directory).ret
    /\ Frame

\* the call is over: its outcome goes to the caller
ReturnToCaller ==
    /\ call # Idle
    /\ call' = Idle
    /\ ret' = NoRet
    /\ Frame /\ UNCHANGED fs

Next ==
    \/ ConvertTokenToId
    \/ ConvertIdToToken
    \/ VocabSize
    \/ BuildInputs
    \/ GetSpecialTokensMask
    \/ CreateTokenTypeIds
    \/ SaveVocabulary
    \/ ReturnToCaller

Spec == Init /\ [][Next]_vars

(***************************************************************************)
(* The three components run on their own: the calls are independent of     *)
(* each other, only save_vocabulary changes state (the filesystem).        *)
(***************************************************************************)
DefaultVocabFile == <<"/", "models", "sentencepiece.bpe.model">>

DefaultFilesystem ==
    [dirs |-> {<<"/">>, <<"/", "models">>, <<"/", "cache">>},
     files |-> [q \in {DefaultVocabFile} |-> "spm"]]

InitTokenizer == \E sp \in Engines : Construct(sp, DefaultVocabFile, DefaultFilesystem)

NextRemap == ConvertTokenToId \/ ConvertIdToToken \/ VocabSize \/ ReturnToCaller

SpecRemap == InitTokenizer /\ [][NextRemap]_vars

NextSeq == BuildInputs \/ GetSpecialTokensMask \/ CreateTokenTypeIds \/ ReturnToCaller

SpecSeq == InitTokenizer /\ [][NextSeq]_vars

NextSave == SaveVocabulary \/ ReturnToCaller

SpecSave == Init /\ [][NextSave]_vars

(***************************************************************************)
(* Vocabulary of the properties.                                           *)
(***************************************************************************)
ReservedStrings == {"<s>", "<pad>", "</s>", "<unk>", "<mask>"}

EngineSize == Len(sp_model)

ReservedIds == {0, 1, 2, 3, EngineSize + 4}

BOS == fairseq_tokens_to_ids[bos_token]

EOS == fairseq_tokens_to_ids[eos_token]

\* the elements of seq at the positions where mask is 0, in order
Unmasked(seq, mask) ==
    LET idx == {i \in DOMAIN seq : mask[i] = 0}
    IN [k \in 1..Cardinality(idx) |->
           seq[CHOOSE i \in idx : Cardinality({j \in idx : j <= i}) = k]]

\* the positions where build_inputs puts a BOS or EOS of its own
Inserted(A, B) ==
    IF B = None
    THEN {1, Len(A) + 2}
    ELSE {1, Len(A) + 2, Len(A) + 3, Len(A) + Len(B[1]) + 4}

Flat(B) == IF B = None THEN <<>> ELSE B[1]

(***************************************************************************)
(* C1.  Round trip of the index remapper.  A piece of the engine           *)
(* vocabulary that is not a reserved string gets the public id             *)
(* local id + 1 and that id converts back to the piece; an id that is not  *)
(* reserved and has id - 1 in [0, engine_size) converts to a piece whose   *)
(* id is the id again.                                                     *)
(***************************************************************************)
C1_RoundTrip ==
    /\ (call.op = "_convert_token_to_id"
          /\ call.token \in Range(sp_model) \ ReservedStrings)
        => /\ ret.val \in DOMAIN sp_model
           /\ sp_model[ret.val] = call.token
           /\ _convert_id_to_token(ret.val) = Returns(call.token)
    /\ (call.op = "_convert_id_to_token"
          /\ call.index \notin ReservedIds
          /\ call.index - 1 >= 0 /\ call.index - 1 < EngineSize)
        => /\ ret.kind = "return"
           /\ _convert_token_to_id(ret.val) = call.index

C1_Witness ==
    /\ call.op = "_convert_token_to_id"
    /\ call.token = "s"
    /\ ret = Returns(7)
    /\ _convert_id_to_token(7) = Returns("s")

(***************************************************************************)
(* C2.  Layout of the reserved tokens.  Whatever the engine holds,         *)
(* '<s>', '<pad>', '</s>', '<unk>' have the ids 0, 1, 2, 3 and '<mask>'    *)
(* the id engine_size + 4, those ids convert back to those strings, and    *)
(* vocab_size is engine_size + 5, the mask id being vocab_size - 1.        *)
(***************************************************************************)
C2_ReservedLayout ==
    /\ call.op = "_convert_token_to_id" =>
        /\ call.token = "<s>" => ret.val = 0
        /\ call.token = "<pad>" => ret.val = 1
        /\ call.token = "</s>" => ret.val = 2
        /\ call.token = "<unk>" => ret.val = 3
        /\ call.token = "<mask>" => ret.val = EngineSize + 4 /\ ret.val = vocab_size - 1
    /\ call.op = "_convert_id_to_token" =>
        /\ call.index = 0 => ret = Returns("<s>")
        /\ call.index = 1 => ret = Returns("<pad>")
        /\ call.index = 2 => ret = Returns("</s>")
        /\ call.index = 3 => ret = Returns("<unk>")
        /\ call.index = EngineSize + 4 => ret = Returns("<mask>")
    /\ call.op = "vocab_size" => ret.val = EngineSize + 5

\* '<mask>' resolved by the table while the engine would answer unknown (0)
C2_Witness ==
    /\ call.op = "_convert_token_to_id"
    /\ call.token = "<mask>"
    /\ PieceToId("<mask>") = 0
    /\ EngineSize = 5
    /\ ret = Returns(9)

(***************************************************************************)
(* C3.  _convert_id_to_token returns a string for every id in              *)
(* 0..vocab_size-1 and fails with an index-out-of-range failure for every  *)
(* other id.                                                               *)
(***************************************************************************)
C3_TotalOnPublicSpace ==
    call.op = "_convert_id_to_token" =>
        IF call.index >= 0 /\ call.index <= vocab_size - 1
        THEN ret.kind = "return"
        ELSE ret = Raises("IndexError")

(***************************************************************************)
(* C4.  build_inputs(A) is [BOS] + A + [EOS] and build_inputs(A, B) is     *)
(* [BOS] + A + [EOS] + [EOS] + B + [EOS], also for empty A or B; the       *)
(* output is 2 ids longer than A, 4 ids longer than A and B together       *)
(* (the overheads behind max_len_single_sentence, max_len_sentences_pair). *)
(***************************************************************************)
C4_BuildInputs ==
    call.op = "build_inputs_with_special_tokens" =>
        LET A == call.token_ids_0
            B == call.token_ids_1
        IN IF B = None
           THEN /\ ret.val = <<BOS>> \o A \o <<EOS>>
                /\ Len(ret.val) - Len(A) = max_len - max_len_single_sentence
                /\ Len(ret.val) - Len(A) = 2
           ELSE /\ ret.val = <<BOS>> \o A \o <<EOS, EOS>> \o B[1] \o <<EOS>>
                /\ Len(ret.val) - Len(A) - Len(B[1]) = max_len - max_len_sentences_pair
                /\ Len(ret.val) - Len(A) - Len(B[1]) = 4

C4_Witness ==
    /\ call.op = "build_inputs_with_special_tokens"
    /\ call.token_ids_0 = <<10, 11>>
    /\ call.token_ids_1 = <<(<<>>)>>
    /\ ret = Returns(<<0, 10, 11, 2, 2, 2>>)

(***************************************************************************)
(* C5.  Without already_has_special_tokens, the special-tokens mask has    *)
(* the length of build_inputs on the same arguments, is 1 exactly at the   *)
(* positions where build_inputs inserted a BOS or EOS and 0 at the         *)
(* positions of the elements of A and B.                                   *)
(***************************************************************************)
C5_MaskMatchesBuild ==
    (call.op = "get_special_tokens_mask" /\ ~call.already_has_special_tokens) =>
        LET A == call.token_ids_0
            B == call.token_ids_1
            built == build_inputs_with_special_tokens(A, B)
        IN /\ ret.kind = "return"
           /\ Len(ret.val) = Len(built)
           /\ \A i \in DOMAIN ret.val :
                /\ ret.val[i] \in {0, 1}
                /\ ret.val[i] = 1 <=> i \in Inserted(A, B)
                /\ ret.val[i] = 1 => built[i] \in {BOS, EOS}
           /\ Unmasked(built, ret.val) = A \o Flat(B)

C5_Witness ==
    /\ call.op = "get_special_tokens_mask"
    /\ ~call.already_has_special_tokens
    /\ call.token_ids_0 = <<0, 2>>
    /\ call.token_ids_1 = <<(<<2, 20, 21>>)>>
    /\ ret = Returns(<<1, 0, 0, 1, 1, 0, 0, 0, 1>>)

(***************************************************************************)
(* C6.  The segment mask is len(A) + 2 zeros for one sequence and          *)
(* len(A) + 3 zeros then len(B) + 1 ones for a pair: as long as            *)
(* build_inputs on the same arguments, the second separator EOS in the     *)
(* zero block.                                                             *)
(***************************************************************************)
C6_SegmentMask ==
    call.op = "create_token_type_ids_from_sequences" =>
        LET A == call.token_ids_0
            B == call.token_ids_1
            built == build_inputs_with_special_tokens(A, B)
        IN /\ Len(ret.val) = Len(built)
           /\ IF B = None
              THEN ret.val = Repeat(0, Len(A) + 2)
              ELSE /\ ret.val = Repeat(0, Len(A) + 3) \o Repeat(1, Len(B[1]) + 1)
                   /\ built[Len(A) + 3] = EOS
                   /\ ret.val[Len(A) + 3] = 0

C6_Witness ==
    /\ call.op = "create_token_type_ids_from_sequences"
    /\ call.token_ids_0 = <<10>>
    /\ call.token_ids_1 = <<(<<>>)>>
    /\ ret = Returns(<<0, 0, 0, 0, 1>>)

(***************************************************************************)
(* C7.  As stated: segment_mask([10,11],[20,21,22]) is                     *)
(* [0,0,0,0,0,0,1,1,1].                                                    *)
(***************************************************************************)
C7_AsStated ==
    (/\ call.op = "create_token_type_ids_from_sequences"
     /\ call.token_ids_0 = <<10, 11>>
     /\ call.token_ids_1 = <<(<<20, 21, 22>>)>>)
        => ret = Returns(<<0, 0, 0, 0, 0, 0, 1, 1, 1>>)

(***************************************************************************)
(* C7, amended.  segment_mask([10,11],[20,21,22]) is                       *)
(* [0,0,0,0,0,1,1,1,1]: five zeros for [BOS,10,11,EOS,EOS], four ones for  *)
(* [20,21,22,EOS].                                                         *)
(***************************************************************************)
C7_Amended ==
    (/\ call.op = "create_token_type_ids_from_sequences"
     /\ call.token_ids_0 = <<10, 11>>
     /\ call.token_ids_1 = <<(<<20, 21, 22>>)>>)
        => ret = Returns(<<0, 0, 0, 0, 0, 1, 1, 1, 1>>)

C7_Witness ==
    /\ call.op = "create_token_type_ids_from_sequences"
    /\ call.token_ids_0 = <<10, 11>>
    /\ call.token_ids_1 = <<(<<20, 21, 22>>)>>
    /\ ret.kind = "return"
    /\ Len(ret.val) = 9

(***************************************************************************)
(* C8.  With already_has_special_tokens, a second sequence (an empty one   *)
(* too) ends the call in a ValueError and no mask; without a second        *)
(* sequence the call never fails.                                          *)
(***************************************************************************)
C8_TaggedWithPair ==
    (call.op = "get_special_tokens_mask" /\ call.already_has_special_tokens) =>
        IF call.token_ids_1 # None
        THEN ret = Raises("ValueError")
        ELSE /\ ret.kind = "return"
             /\ Len(ret.val) = Len(call.token_ids_0)

C8_Witness ==
    /\ call.op = "get_special_tokens_mask"
    /\ call.already_has_special_tokens
    /\ call.token_ids_0 = <<0, 10>>
    /\ call.token_ids_1 = <<(<<>>)>>
    /\ ret = Raises("ValueError")

C10_NoReservedCollision ==
    (call.op = "_convert_token_to_id" /\ call.token \notin ReservedStrings) =>
        /\ ret.val \notin {0, 1, 2, EngineSize + 4}
        /\ call.token \notin Range(sp_model) => ret.val = 3

====
